---- MODULE Spec2Model ----
(***************************************************************************)
(* Model of app_preco_volume.py: a Streamlit dashboard that reads the      *)
(* table cotahist_hist through three memoised queries (lista_tickers,      *)
(* get_date_bounds, load_data) and draws a price/volume chart.             *)
(*                                                                         *)
(* Dates are day numbers counted from 1970-01-01 (proleptic Gregorian      *)
(* calendar), ticker codes are tuples of one-character strings, the table  *)
(* is a bag of rows, a mean is the exact fraction sum/count.               *)
(***************************************************************************)
EXTENDS Bags, FiniteSets, Integers, Sequences, TLC

VARIABLES
    table,          \* cotahist_hist, a bag of rows
    now,            \* the clock, in seconds
    cacheSeries,    \* the memo of load_data
    cacheTickers,   \* the memo of lista_tickers
    cacheBounds,    \* the memo of get_date_bounds
    queryCount,     \* queries sent to the engine so far
    log,            \* the calls of load_data, in order
    pc,             \* position of the script in the current run
    min_date, max_date, tickers, ticker, freq, value,
    data_ini, data_fim, df, fig,    \* the script's globals
    err             \* the exception that stopped the run, or "none"

storeVars  == <<table, now, cacheSeries, cacheTickers, cacheBounds, queryCount, log>>
scriptVars == <<pc, min_date, max_date, tickers, ticker, freq, value,
                data_ini, data_fim, df, fig, err>>
vars == <<storeVars, scriptVars>>

\* SQL NULL / Python None: as a text, as a date, and as any other object
NullText == <<"NULL">>
NullDate == -1
NULL == "NULL"

(***************************************************************************)
(* Calendar: datetime.date / SQL DATE values.                              *)
(***************************************************************************)
DaysFromCivil(y, m, d) ==
    LET yy  == IF m <= 2 THEN y - 1 ELSE y
        era == yy \div 400
        yoe == yy - era * 400
        mp  == IF m > 2 THEN m - 3 ELSE m + 9
        doy == (153 * mp + 2) \div 5 + d - 1
        doe == yoe * 365 + yoe \div 4 - yoe \div 100 + doy
    IN  era * 146097 + doe - 719468

CivilFromDays(z) ==
    LET zz  == z + 719468
        era == zz \div 146097
        doe == zz - era * 146097
        yoe == (doe - doe \div 1460 + doe \div 36524 - doe \div 146096) \div 365
        doy == doe - (365 * yoe + yoe \div 4 - yoe \div 100)
        mp  == (5 * doy + 2) \div 153
        d   == doy - (153 * mp + 2) \div 5 + 1
        m   == IF mp < 10 THEN mp + 3 ELSE mp - 9
        y   == yoe + era * 400 + (IF m <= 2 THEN 1 ELSE 0)
    IN  [year |-> y, month |-> m, day |-> d]

\* start of the ISO week (Monday) holding day z; 1970-01-01 was a Thursday
WeekStart(z) == z - ((z + 3) % 7)

\* first day of the calendar month holding day z
MonthStart(z) ==
    LET c == CivilFromDays(z) IN DaysFromCivil(c.year, c.month, 1)

DaysInMonth(y, m) ==
    LET ny == IF m = 12 THEN y + 1 ELSE y
        nm == IF m = 12 THEN 1 ELSE m + 1
    IN  DaysFromCivil(ny, nm, 1) - DaysFromCivil(y, m, 1)

(***************************************************************************)
(* DATE_TRUNC('{freq}', data_operacao), frq being load_data's freq.        *)
(* PostgreSQL lower-cases the unit and looks it up in its table of unit    *)
(* names and abbreviations, where "d" is day, "w" is week and "m" is       *)
(* minute ("mon" and "month" are month).  A trade date is a day at 00:00,  *)
(* so truncating it to the minute leaves it unchanged.                     *)
(***************************************************************************)
DecodeUnits(frq) ==
    CASE frq = "D" -> "day"
      [] frq = "W" -> "week"
      [] frq = "M" -> "minute"

DATE_TRUNC(frq, d) ==
    LET unit == DecodeUnits(frq) IN
    CASE unit = "day"    -> d
      [] unit = "week"   -> WeekStart(d)
      [] unit = "month"  -> MonthStart(d)
      [] unit = "minute" -> d

(***************************************************************************)
(* cotahist_hist: rows [codneg, data_operacao, preco_fechamento, volume],  *)
(* prices in centavos.                                                     *)
(***************************************************************************)
Rows(T) == BagToSet(T)

RECURSIVE SumOver(_, _, _)
\* sum of field fld over the rows S of bag T, each counted with its copies
SumOver(T, S, fld) ==
    IF S = {} THEN 0
    ELSE LET r == CHOOSE x \in S : TRUE
         IN  CopiesIn(r, T) * (CASE fld = "volume" -> r.volume
                                 [] fld = "preco"  -> r.preco_fechamento
                                 [] fld = "count"  -> 1)
             + SumOver(T, S \ {r}, fld)

RECURSIVE OrderBy_Descending(_)
\* the keys in descending order, as ORDER BY data_agregada DESC would give
OrderBy_Descending(K) ==
    IF K = {} THEN << >>
    ELSE LET k == CHOOSE x \in K : \A y \in K : x >= y
         IN  <<k>> \o OrderBy_Descending(K \ {k})

RECURSIVE OrderBy(_)
\* ORDER BY data_agregada: the keys in ascending order
OrderBy(K) ==
    IF K = {} THEN << >>
    ELSE LET k == CHOOSE x \in K : \A y \in K : x <= y
         IN  <<k>> \o OrderBy(K \ {k})

\* the window without its last day, as data_operacao >= :ini AND
\* data_operacao < :fim would give
Where_EndExclusive(T, t, ini, fim) ==
    {r \in Rows(T) : r.codneg = t /\ ini <= r.data_operacao /\ r.data_operacao < fim}

\* the window of every code, as a query without the codneg = :t condition
\* would give
Where_AnyCode(T, t, ini, fim) ==
    {r \in Rows(T) : ini <= r.data_operacao /\ r.data_operacao <= fim}

\* WHERE codneg = :t AND data_operacao BETWEEN :ini AND :fim
Where(T, t, ini, fim) ==
    {r \in Rows(T) : r.codneg = t /\ ini <= r.data_operacao /\ r.data_operacao <= fim}

\* the body of load_data: the aggregate query and the column rename
load_data(T, t, ini, fim, frq) ==
    LET sel    == Where(T, t, ini, fim)
        keys   == {DATE_TRUNC(frq, r.data_operacao) : r \in sel}
        grp(k) == {r \in sel : DATE_TRUNC(frq, r.data_operacao) = k}
        ord    == OrderBy(keys)
    IN  [i \in 1..Len(ord) |->
            [data_operacao |-> ord[i],
             preco  |-> [num |-> SumOver(T, grp(ord[i]), "preco"),
                         den |-> SumOver(T, grp(ord[i]), "count")],
             volume |-> SumOver(T, grp(ord[i]), "volume")]]

(***************************************************************************)
(* @st.cache_data(ttl=...): a process-wide map from the argument tuple to  *)
(* the value and the time it was stored; an entry is served while its age  *)
(* is below the ttl, and reading it does not renew it.                     *)
(***************************************************************************)
TTL_SERIES == 3600

\* the age test reversed: only an entry older than the ttl is served
CacheHit_AgeReversed(cache, key, ttl, t) ==
    key \in DOMAIN cache /\ t - cache[key].stored > ttl

CacheHit(cache, key, ttl, t) ==
    key \in DOMAIN cache /\ t - cache[key].stored < ttl

CachePut(cache, key, val, t) ==
    [k \in DOMAIN cache \cup {key} |->
        IF k = key THEN [value |-> val, stored |-> t] ELSE cache[k]]

\* one call load_data(t, ini, fim, frq) through its cache decorator
LoadData(t, ini, fim, frq) ==
    LET key == <<t, ini, fim, frq>>
        hit == CacheHit(cacheSeries, key, TTL_SERIES, now)
        res == IF hit THEN cacheSeries[key].value
                      ELSE load_data(table, t, ini, fim, frq)
    IN  /\ cacheSeries' = IF hit THEN cacheSeries
                                 ELSE CachePut(cacheSeries, key, res, now)
        /\ queryCount' = IF hit THEN queryCount ELSE queryCount + 1
        /\ log' = Append(log, [args |-> key, at |-> now, df |-> res,
                               raised |-> "none",
                               queries |-> IF hit THEN 0 ELSE 1])
        /\ UNCHANGED <<table, now, cacheTickers, cacheBounds>>

(***************************************************************************)
(* Text: a ticker code is a tuple of characters, compared character by     *)
(* character by code point.                                                *)
(***************************************************************************)
Digit == {"0", "1", "2", "3", "4", "5", "6", "7", "8", "9"}
Upper == {"A", "B", "C", "D", "E", "F", "G", "H", "I", "J", "K", "L", "M",
          "N", "O", "P", "Q", "R", "S", "T", "U", "V", "W", "X", "Y", "Z"}

CodePoints ==
    <<"0", "1", "2", "3", "4", "5", "6", "7", "8", "9",
      "A", "B", "C", "D", "E", "F", "G", "H", "I", "J", "K", "L", "M",
      "N", "O", "P", "Q", "R", "S", "T", "U", "V", "W", "X", "Y", "Z",
      "a", "b", "c", "d", "e", "f", "g", "h", "i", "j", "k", "l", "m",
      "n", "o", "p", "q", "r", "s", "t", "u", "v", "w", "x", "y", "z">>

Ord(ch) == CHOOSE i \in 1..Len(CodePoints) : CodePoints[i] = ch

RECURSIVE TextLess(_, _)
TextLess(a, b) ==
    IF b = << >> THEN FALSE
    ELSE IF a = << >> THEN TRUE
    ELSE IF Head(a) # Head(b) THEN Ord(Head(a)) < Ord(Head(b))
    ELSE TextLess(Tail(a), Tail(b))

\* codneg ~ '^[A-Z]{4}\d'
MatchesTicker(c) ==
    /\ Len(c) >= 5
    /\ \A i \in 1..4 : c[i] \in Upper
    /\ c[5] \in Digit

\* the whole match of '^[A-Z]{4}\d.*' instead of the captured prefix
REGEXP_MATCH1_WholeCode(c) ==
    IF MatchesTicker(c) THEN c ELSE NullText

\* (REGEXP_MATCH(codneg, '^([A-Z]{4}\d{1})'))[1]: the captured group, or NULL
REGEXP_MATCH1(c) ==
    IF MatchesTicker(c) THEN SubSeq(c, 1, 5) ELSE NullText

RECURSIVE OrderByText(_)
\* ORDER BY ticker_clean: ascending, NULL last
OrderByText(S) ==
    IF S = {} THEN << >>
    ELSE LET k == CHOOSE x \in S :
                      /\ (x = NullText => S = {NullText})
                      /\ \A y \in S \ {x, NullText} : TextLess(x, y)
         IN  <<k>> \o OrderByText(S \ {k})

\* Series.dropna()
dropna(col) == SelectSeq(col, LAMBDA x : x # NullText)

RECURSIVE unique(_)
\* Series.unique(): the first occurrence of each value, in order
unique(col) ==
    IF col = << >> THEN << >>
    ELSE LET rest == unique(SubSeq(col, 1, Len(col) - 1))
             last == col[Len(col)]
         IN  IF \E i \in 1..Len(rest) : rest[i] = last
             THEN rest ELSE Append(rest, last)

\* the body of lista_tickers
lista_tickers(T) ==
    LET sel   == {r \in Rows(T) : MatchesTicker(r.codneg)}
        clean == {REGEXP_MATCH1(r.codneg) : r \in sel}
    IN  unique(dropna(OrderByText(clean)))

MinOf(S) == CHOOSE x \in S : \A y \in S : x <= y

MaxOf(S) == CHOOSE x \in S : \A y \in S : x >= y

\* the body of get_date_bounds: MIN and MAX over no row are NULL
get_date_bounds(T) ==
    LET ds == {r.data_operacao : r \in Rows(T)}
    IN  IF ds = {} THEN <<NullDate, NullDate>> ELSE <<MinOf(ds), MaxOf(ds)>>

TTL_CATALOG == 86400

\* one call lista_tickers() through its cache decorator
CallListaTickers ==
    LET hit == CacheHit(cacheTickers, << >>, TTL_CATALOG, now)
        res == IF hit THEN cacheTickers[<< >>].value ELSE lista_tickers(table)
    IN  /\ cacheTickers' = IF hit THEN cacheTickers
                                  ELSE CachePut(cacheTickers, << >>, res, now)
        /\ queryCount' = IF hit THEN queryCount ELSE queryCount + 1
        /\ tickers' = res

\* one call get_date_bounds() through its cache decorator
CallGetDateBounds ==
    LET hit == CacheHit(cacheBounds, << >>, TTL_CATALOG, now)
        res == IF hit THEN cacheBounds[<< >>].value ELSE get_date_bounds(table)
    IN  /\ cacheBounds' = IF hit THEN cacheBounds
                                 ELSE CachePut(cacheBounds, << >>, res, now)
        /\ queryCount' = IF hit THEN queryCount ELSE queryCount + 1
        /\ min_date' = res[1]
        /\ max_date' = res[2]

(***************************************************************************)
(* Inputs                                                                  *)
(***************************************************************************)
MaxRows == 3

PETR4  == <<"P", "E", "T", "R", "4">>
VALE3  == <<"V", "A", "L", "E", "3">>
PETR4F == <<"P", "E", "T", "R", "4", "F">>

Jan01 == DaysFromCivil(2024, 1, 1)
Jan05 == DaysFromCivil(2024, 1, 5)
Jan31 == DaysFromCivil(2024, 1, 31)
Feb01 == DaysFromCivil(2024, 2, 1)

SeriesDates == {Jan01, Jan05, Jan31, Feb01}
SeriesCodes == {PETR4, VALE3}
Freqs == {"D", "W", "M"}

Row(c, d, p, v) ==
    [codneg |-> c, data_operacao |-> d, preco_fechamento |-> p, volume |-> v]

SeriesRows ==
    {Row(c, d, pv[1], pv[2]) :
        c \in SeriesCodes, d \in SeriesDates, pv \in {<<1000, 100>>, <<2000, 300>>}}

Jul03 == DaysFromCivil(2023, 7, 3)
Jan29 == DaysFromCivil(2024, 1, 29)

RenderDates == {Jul03, Jan05, Jan31}
RenderCodes == {PETR4, PETR4F, VALE3}
RenderRows == {Row(c, d, 1000, 100) : c \in RenderCodes, d \in RenderDates}
PickDates == {Jan05, Jan29}

RECURSIVE BagsUpTo(_, _)
BagsUpTo(U, n) ==
    IF n = 0 THEN {EmptyBag}
    ELSE LET B == BagsUpTo(U, n - 1)
         IN  B \cup {b (+) SetToBag({r}) : b \in B, r \in U}

\* 31 daily rows of January 2024, volume 100, price 30.00
Fixture == SetToBag({Row(PETR4, Jan01 + i, 3000, 100) : i \in 0..30})

(***************************************************************************)
(* Series query on a given table: one call per run.                        *)
(***************************************************************************)
\* a fresh process before the script's first statement
Fresh ==
    /\ now = 0
    /\ cacheSeries = << >>
    /\ cacheTickers = << >>
    /\ cacheBounds = << >>
    /\ queryCount = 0
    /\ log = << >>
    /\ pc = "start"
    /\ min_date = NullDate /\ max_date = NullDate
    /\ tickers = << >> /\ ticker = NullText /\ freq = NULL
    /\ value = <<NullDate, NullDate>> /\ data_ini = NullDate /\ data_fim = NullDate
    /\ df = << >> /\ fig = NULL
    /\ err = "none"

InitSeries ==
    /\ table \in BagsUpTo(SeriesRows, MaxRows) \cup {Fixture}
    /\ Fresh

NextSeries ==
    \E t \in SeriesCodes, ini \in SeriesDates, fim \in SeriesDates, f \in Freqs :
        /\ Len(log) = 0
        /\ LoadData(t, ini, fim, f)
        /\ UNCHANGED scriptVars

SpecSeries == InitSeries /\ [][NextSeries]_vars

(***************************************************************************)
(* What the specification means by a granularity.                          *)
(***************************************************************************)
Granularity(frq) ==
    CASE frq = "D" -> "Day" [] frq = "W" -> "Week" [] frq = "M" -> "Month"

TruncTo(g, d) ==
    CASE g = "Day" -> d [] g = "Week" -> WeekStart(d) [] g = "Month" -> MonthStart(d)

NextPeriod(g, d) ==
    CASE g = "Day"   -> d + 1
      [] g = "Week"  -> d + 7
      [] g = "Month" -> LET c == CivilFromDays(d)
                        IN  MonthStart(d) + DaysInMonth(c.year, c.month)

Calls == {log[i] : i \in 1..Len(log)}

\* the rows a call is about: code equal to the ticker, date in [ini, fim]
Window(c) ==
    {r \in BagToSet(table) :
        /\ r.codneg = c.args[1]
        /\ r.data_operacao \in c.args[2]..c.args[3]}

Ascending(pts) ==
    \A i \in 1..Len(pts) - 1 : pts[i].data_operacao < pts[i + 1].data_operacao

(***************************************************************************)
(* C1: a call with start > end fails with InvalidRangeError and issues no  *)
(* query.                                                                  *)
(***************************************************************************)
C1_InvalidRangeRejected ==
    \A c \in Calls :
        c.args[2] > c.args[3] => c.raised = "InvalidRangeError" /\ c.queries = 0

(***************************************************************************)
(* C4: for start <= end the bucket starts are strictly ascending (hence    *)
(* without duplicates) and each is the truncation, to the requested        *)
(* granularity, of some date in [start, end].                              *)
(***************************************************************************)
C4_BucketsAscendingAndTruncated ==
    \A c \in Calls :
        c.args[2] <= c.args[3] =>
            /\ Ascending(c.df)
            /\ \A i \in 1..Len(c.df) :
                   \E d \in c.args[2]..c.args[3] :
                       c.df[i].data_operacao = TruncTo(Granularity(c.args[4]), d)

C8_PeriodsContiguous ==
    \A c \in Calls :
        \A i \in 1..Len(c.df) - 1 :
            c.df[i + 1].data_operacao
                = NextPeriod(Granularity(c.args[4]), c.df[i].data_operacao)

(***************************************************************************)
(* C8 as amended: the returned bucket starts are strictly ascending and    *)
(* are exactly the values DATE_TRUNC gives to the dates of the rows in the *)
(* window; a period with no such row is absent, so neighbours need not be  *)
(* adjacent.                                                               *)
(***************************************************************************)
C8_PeriodsWithRowsOnly ==
    \A c \in Calls :
        /\ Ascending(c.df)
        /\ {c.df[i].data_operacao : i \in 1..Len(c.df)}
               = {DATE_TRUNC(c.args[4], r.data_operacao) : r \in Window(c)}

C8_Witness ==
    \E c \in Calls :
        /\ c.args[4] = "W"
        /\ Len(c.df) = 2
        /\ c.df[2].data_operacao > c.df[1].data_operacao + 7

(***************************************************************************)
(* Series query over time: the loader appends rows to the table, the       *)
(* clock advances, and load_data is called repeatedly in one process.      *)
(***************************************************************************)
MaxCalls == 3
TickSeconds == 1800
MaxTime == 5400

CacheRows == {Row(PETR4, Jan01, 1000, 100), Row(PETR4, Jan05, 2000, 300)}
CacheArgs == {<<PETR4, Jan01, Feb01, "D">>, <<PETR4, Jan01, Feb01, "W">>}

\* the external loader appends one row to cotahist_hist
AppendRow(r) ==
    /\ BagCardinality(table) < MaxRows
    /\ table' = table (+) SetToBag({r})
    /\ UNCHANGED <<now, cacheSeries, cacheTickers, cacheBounds, queryCount, log>>
    /\ UNCHANGED scriptVars

Tick ==
    /\ now < MaxTime
    /\ now' = now + TickSeconds
    /\ UNCHANGED <<table, cacheSeries, cacheTickers, cacheBounds, queryCount, log>>
    /\ UNCHANGED scriptVars

InitCache ==
    /\ table = EmptyBag
    /\ Fresh

NextCache ==
    \/ \E r \in CacheRows : AppendRow(r)
    \/ Tick
    \/ \E a \in CacheArgs :
           /\ Len(log) < MaxCalls
           /\ LoadData(a[1], a[2], a[3], a[4])
           /\ UNCHANGED scriptVars

SpecCache == InitCache /\ [][NextCache]_vars

\* a call that was answered from the cache got the value some earlier call
\* with the same arguments computed
ServedFromOwnKey ==
    \A j \in 1..Len(log) :
        log[j].queries = 0 =>
            \E i \in 1..j - 1 :
                /\ log[i].args = log[j].args
                /\ log[i].queries = 1
                /\ log[i].df = log[j].df

(***************************************************************************)
(* C3: a call with the arguments of an earlier call made less than 3600 s  *)
(* before it returns that call's result and issues no query, whatever was  *)
(* appended in between; a call with other arguments never gets that        *)
(* cached result.                                                          *)
(***************************************************************************)
C3_RepeatWithinIntervalIsCached ==
    /\ \A j \in 1..Len(log) : \A i \in 1..j - 1 :
           (log[i].args = log[j].args /\ log[j].at - log[i].at < TTL_SERIES) =>
               log[j].df = log[i].df /\ log[j].queries = 0
    /\ ServedFromOwnKey

(***************************************************************************)
(* C3 as amended: the interval runs from the earlier call that executed    *)
(* the query (and so stored the entry): a call with the same arguments     *)
(* less than 3600 s after such a call returns its result and issues no     *)
(* query, whatever was appended in between; a call with other arguments    *)
(* never gets that cached result.                                          *)
(***************************************************************************)
C3_RepeatWithinIntervalOfQueryIsCached ==
    /\ \A j \in 1..Len(log) : \A i \in 1..j - 1 :
           (/\ log[i].args = log[j].args
            /\ log[i].queries = 1
            /\ log[j].at - log[i].at < TTL_SERIES) =>
               log[j].df = log[i].df /\ log[j].queries = 0
    /\ ServedFromOwnKey

\* a repeated call answered with a result the table no longer gives
C3_Witness ==
    \E j \in 1..Len(log) :
        /\ log[j].queries = 0
        /\ log[j].df # load_data(table, log[j].args[1], log[j].args[2],
                                 log[j].args[3], log[j].args[4])
        /\ \E i \in 1..Len(log) : log[i].args # log[j].args

(***************************************************************************)
(* Catalog queries on a given table.                                       *)
(***************************************************************************)
PETR3  == <<"P", "E", "T", "R", "3">>
PETR11 == <<"P", "E", "T", "R", "1", "1">>
ABCD1  == <<"A", "B", "C", "D", "1">>
petr4  == <<"p", "e", "t", "r", "4">>
PET4   == <<"P", "E", "T", "4">>
PETRO  == <<"P", "E", "T", "R", "O">>
XPETR4 == <<"4", "P", "E", "T", "R", "4">>

CatalogCodes == {PETR4, PETR4F, PETR3, PETR11, VALE3, ABCD1, petr4, PET4, PETRO, XPETR4}
CatalogRows == {Row(c, Jan05, 1000, 100) : c \in CatalogCodes}

InitCatalog ==
    /\ table \in BagsUpTo(CatalogRows, MaxRows)
    /\ Fresh

ListaTickersCall ==
    /\ CallListaTickers
    /\ UNCHANGED <<table, now, cacheSeries, cacheBounds, log>>
    /\ UNCHANGED <<pc, min_date, max_date, ticker, freq, value,
                   data_ini, data_fim, df, fig, err>>

GetDateBoundsCall ==
    /\ CallGetDateBounds
    /\ UNCHANGED <<table, now, cacheSeries, cacheTickers, log>>
    /\ UNCHANGED <<pc, tickers, ticker, freq, value,
                   data_ini, data_fim, df, fig, err>>

NextCatalog == ListaTickersCall \/ GetDateBoundsCall

SpecCatalog == InitCatalog /\ [][NextCatalog]_vars

(***************************************************************************)
(* C6: lista_tickers returns a list without duplicates, sorted ascending,  *)
(* without null, whose entries are exactly the 4-uppercase-letters +       *)
(* 1-digit prefixes of the raw codes that match the pattern.               *)
(***************************************************************************)
C6_TickersSortedDistinctPrefixes ==
    << >> \in DOMAIN cacheTickers =>
        /\ \A i \in 1..Len(tickers) - 1 : TextLess(tickers[i], tickers[i + 1])
        /\ \A i \in 1..Len(tickers) : \A j \in 1..Len(tickers) :
               tickers[i] = tickers[j] => i = j
        /\ \A i \in 1..Len(tickers) : tickers[i] # NullText
        /\ {tickers[i] : i \in 1..Len(tickers)}
               = {SubSeq(r.codneg, 1, 5) :
                     r \in {x \in BagToSet(table) :
                               /\ Len(x.codneg) >= 5
                               /\ \A k \in 1..4 : x.codneg[k] \in Upper
                               /\ x.codneg[5] \in Digit}}

\* two raw codes collapse to one entry, a non-matching code gives none
C6_Witness ==
    /\ << >> \in DOMAIN cacheTickers
    /\ tickers = <<PETR4>>
    /\ {r.codneg : r \in BagToSet(table)} = {PETR4F, PETR4, petr4}

(***************************************************************************)
(* The script, one run in a fresh process: the statements of the module    *)
(* body in order.  A widget returns what the user has selected, the        *)
(* default included; an uncaught exception ends the run.                   *)
(***************************************************************************)
meses ==
    <<"Janeiro", "Fevereiro", "Março", "Abril", "Maio", "Junho",
      "Julho", "Agosto", "Setembro", "Outubro", "Novembro", "Dezembro">>

formatar_data_ptbr(dt) ==
    LET c == CivilFromDays(dt) IN <<c.day, meses[c.month], c.year>>

freq_map == [l \in {"Diária", "Semanal", "Mensal"} |->
                CASE l = "Diária" -> "D" [] l = "Semanal" -> "W" [] l = "Mensal" -> "M"]

\* d - pd.DateOffset(months=n): n months back, the day clipped to the month's end
MinusMonths(d, n) ==
    LET c  == CivilFromDays(d)
        k  == c.year * 12 + (c.month - 1) - n
        y  == k \div 12
        m  == (k % 12) + 1
        dd == IF c.day > DaysInMonth(y, m) THEN DaysInMonth(y, m) ELSE c.day
    IN  DaysFromCivil(y, m, dd)

Fail(e) ==
    /\ err' = e
    /\ pc' = "failed"

\* line 127
GetDateBounds ==
    /\ pc = "start"
    /\ CallGetDateBounds
    /\ pc' = "lista_tickers"
    /\ UNCHANGED <<table, now, cacheSeries, cacheTickers, log>>
    /\ UNCHANGED <<tickers, ticker, freq, value, data_ini, data_fim, df, fig, err>>

\* line 130
ListaTickers ==
    /\ pc = "lista_tickers"
    /\ CallListaTickers
    /\ pc' = "selectbox"
    /\ UNCHANGED <<table, now, cacheSeries, cacheBounds, log>>
    /\ UNCHANGED <<min_date, max_date, ticker, freq, value, data_ini, data_fim,
                   df, fig, err>>

\* lines 131-137: one of the options, None when there is no option
Selectbox ==
    /\ pc = "selectbox"
    /\ \/ \E i \in 1..Len(tickers) : ticker' = tickers[i]
       \/ tickers = << >> /\ ticker' = NullText
    /\ pc' = "radio"
    /\ UNCHANGED storeVars
    /\ UNCHANGED <<min_date, max_date, tickers, freq, value, data_ini, data_fim,
                   df, fig, err>>

\* lines 140-147
Radio ==
    /\ pc = "radio"
    /\ freq' \in {"Diária", "Semanal", "Mensal"}
    /\ pc' = "date_value"
    /\ UNCHANGED storeVars
    /\ UNCHANGED <<min_date, max_date, tickers, ticker, value, data_ini, data_fim,
                   df, fig, err>>

\* line 153: the default period; None - DateOffset is a TypeError
DateValue ==
    /\ pc = "date_value"
    /\ IF max_date = NullDate
       THEN Fail("TypeError") /\ UNCHANGED value
       ELSE /\ value' = <<MinusMonths(max_date, 6), max_date>>
            /\ pc' = "date_input"
            /\ UNCHANGED err
    /\ UNCHANGED storeVars
    /\ UNCHANGED <<min_date, max_date, tickers, ticker, freq, data_ini, data_fim,
                   df, fig>>

\* the dates a user can pick in the widget
Pickable == {d \in {value[1], value[2], min_date, max_date} \cup PickDates :
                min_date <= d /\ d <= max_date}

\* lines 150-156: st.date_input rejects a default outside [min_value,
\* max_value]; it returns the selected (start, end), or a 1-tuple while only
\* the start has been picked, which the unpacking rejects
DateInput ==
    /\ pc = "date_input"
    /\ IF value[1] < min_date \/ value[2] > max_date
       THEN Fail("StreamlitAPIException") /\ UNCHANGED <<data_ini, data_fim>>
       ELSE \/ \E a \in Pickable, b \in Pickable :
                  /\ a <= b
                  /\ data_ini' = a
                  /\ data_fim' = b
                  /\ pc' = "load_data"
                  /\ UNCHANGED err
            \/ Fail("ValueError") /\ UNCHANGED <<data_ini, data_fim>>
    /\ UNCHANGED storeVars
    /\ UNCHANGED <<min_date, max_date, tickers, ticker, freq, value, df, fig>>

\* lines 163-168
Load ==
    /\ pc = "load_data"
    /\ LoadData(ticker, data_ini, data_fim, freq_map[freq])
    /\ df' = log'[Len(log')].df
    /\ pc' = "chart"
    /\ UNCHANGED <<min_date, max_date, tickers, ticker, freq, value,
                   data_ini, data_fim, fig, err>>

\* lines 171-229: the figure with its two traces, handed to st.plotly_chart,
\* and the caption
Chart ==
    /\ pc = "chart"
    /\ fig' = [title  |-> <<ticker, freq, formatar_data_ptbr(data_ini),
                             formatar_data_ptbr(data_fim)>>,
               price  |-> [x |-> [i \in 1..Len(df) |-> df[i].data_operacao],
                           y |-> [i \in 1..Len(df) |-> df[i].preco]],
               volume |-> [x |-> [i \in 1..Len(df) |-> df[i].data_operacao],
                           y |-> [i \in 1..Len(df) |-> df[i].volume],
                           visible |-> "legendonly"]]
    /\ pc' = "done"
    /\ UNCHANGED storeVars
    /\ UNCHANGED <<min_date, max_date, tickers, ticker, freq, value,
                   data_ini, data_fim, df, err>>

InitRender ==
    /\ table \in BagsUpTo(RenderRows, MaxRows)
    /\ Fresh

NextRender ==
    \/ GetDateBounds
    \/ ListaTickers
    \/ Selectbox
    \/ Radio
    \/ DateValue
    \/ DateInput
    \/ Load
    \/ Chart

SpecRender == InitRender /\ [][NextRender]_vars

\* the rows the series query of this run is about
Selected ==
    {r \in BagToSet(table) :
        /\ r.codneg = ticker
        /\ data_ini <= r.data_operacao
        /\ r.data_operacao <= data_fim}

LabelGranularity(l) ==
    CASE l = "Diária" -> "Day" [] l = "Semanal" -> "Week" [] l = "Mensal" -> "Month"

(***************************************************************************)
(* C2: on an empty table get_date_bounds fails with EmptyDatasetError      *)
(* instead of returning (null, null), so no null bound reaches the         *)
(* default-range computation or the date widget.                           *)
(***************************************************************************)
C2_EmptyTableRejected ==
    /\ (table = EmptyBag /\ pc # "start") => err = "EmptyDatasetError"
    /\ pc \in {"date_value", "date_input"} =>
           min_date # NullDate /\ max_date # NullDate

(***************************************************************************)
(* C7: when no row has the selected ticker code and a date in [start,      *)
(* end], load_data returns an empty frame without raising, the chart step  *)
(* can run, and the displayed figure has empty price and volume traces.    *)
(***************************************************************************)
C7_EmptyResultRendersEmptyChart ==
    /\ (pc \in {"chart", "done"} /\ Selected = {}) =>
           /\ df = << >>
           /\ err = "none"
           /\ log[Len(log)].raised = "none"
    /\ (pc = "chart" /\ Selected = {}) => ENABLED Chart
    /\ (pc = "done" /\ Selected = {}) =>
           /\ fig.price.x = << >> /\ fig.price.y = << >>
           /\ fig.volume.x = << >> /\ fig.volume.y = << >>

\* the catalog offers PETR4 for the raw code PETR4F, which has no row of its own
C7_Witness ==
    /\ pc = "done"
    /\ Selected = {}
    /\ ticker = PETR4
    /\ \E r \in BagToSet(table) :
           r.codneg = PETR4F /\ data_ini <= r.data_operacao /\ r.data_operacao <= data_fim

(***************************************************************************)
(* C9: each UI frequency reaches the query as the matching granularity:    *)
(* the bucket keys are the selected dates truncated to the day under       *)
(* 'Diária', to the week start under 'Semanal', to the first day of the    *)
(* month under 'Mensal'; no other unit reaches the truncation.             *)
(***************************************************************************)
C9_FrequencyIsGranularity ==
    pc \in {"chart", "done"} =>
        /\ log[Len(log)].args[4] \in {"D", "W", "M"}
        /\ {df[i].data_operacao : i \in 1..Len(df)}
               = {TruncTo(LabelGranularity(freq), r.data_operacao) : r \in Selected}

(***************************************************************************)
(* C10: with a non-empty table the default range given to the widget and   *)
(* the range handed to the series query both satisfy                       *)
(* min_date <= start <= end <= max_date.                                   *)
(***************************************************************************)
C10_RangeWithinBounds ==
    table # EmptyBag =>
        /\ value # <<NullDate, NullDate>> =>
               min_date <= value[1] /\ value[1] <= value[2] /\ value[2] <= max_date
        /\ pc \in {"load_data", "chart", "done"} =>
               min_date <= data_ini /\ data_ini <= data_fim /\ data_fim <= max_date

====
